---- MODULE Spec2Model ----
(***************************************************************************)
(* The inventory state container (InventoryService, IndexedDB version)     *)
(* with its startup sequence (open, migrate, load), its durable store,     *)
(* and the callers in AppComponent that reach it.                          *)
(*                                                                         *)
(* Strings whose whitespace matters (box names) are sequences of           *)
(* one-character strings; item texts are TLA+ strings, "" being the empty  *)
(* (falsy) string.  Identifiers from crypto.randomUUID() are the naturals  *)
(* 1, 2, ... handed out by nextId; 0 is the null current-box pointer.      *)
(***************************************************************************)
EXTENDS Integers, Sequences, FiniteSets, TLC

\* ------------------------------------------------------------------ bounds
MaxIds == 2
MaxClock == 1
MaxInflight == 2
MaxEvents == 3
MaxSessions == 2
MaxPending == 1

\* ------------------------------------------------------------ value spaces
NoBox == 0

\* an id that no randomUUID() call of the run returns
GhostId == MaxIds + 1

NameInputs == << <<>>, <<" ">>, <<" ", "G">> >>

LegacyBox == [id |-> -1, name |-> <<"O">>, isFull |-> TRUE, createdAt |-> 0]

LegacyItem ==
  [id |-> -2, boxId |-> -1, boxName |-> <<"O">>, imageUrl |-> "img",
   name |-> "Lamp", description |-> "", tags |-> <<>>, timestamp |-> 0]

LegacyItem2 ==
  [id |-> -3, boxId |-> -1, boxName |-> <<"O">>, imageUrl |-> "img",
   name |-> "Rug", description |-> "", tags |-> <<>>, timestamp |-> 1]

\* Partial<Item> payloads handed to addItem
ItemDataInputs ==
  << <<>>,
     [name |-> "", description |-> "d"],
     [boxId |-> GhostId, name |-> "Drill", imageUrl |-> "img",
      tags |-> <<"tool">>] >>

\* Partial<Item> payloads: the id is among the keys a caller may pass
UpdatesWithId ==
  << [boxId |-> GhostId],
     [id |-> GhostId, name |-> "Saw", timestamp |-> MaxClock + 1] >>

\* Partial<Omit<Item, 'id'>> payloads handed to updateItem
UpdateInputs ==
  << [boxId |-> GhostId],
     [name |-> "Saw", timestamp |-> MaxClock + 1] >>

\* what analyzeItem resolves with: the model's answer, or its fallback
AnalysisInputs ==
  << [name |-> "Drill", description |-> "d", tags |-> <<"tool">>],
     [name |-> "Unidentified Item", description |-> "Could not analyze item. ",
      tags |-> <<"unknown">>] >>

\* transcripts the speech recognition delivers
TranscriptInputs == << <<" ">>, <<"G">> >>

ListeningModes == {"box", "item", "search"}

\* ------------------------------------------------------------ pure helpers
Range(s) == {s[i] : i \in 1..Len(s)}

IsSpace(c) == c = " "

RECURSIVE TrimStart(_)
TrimStart(s) ==
  IF s # <<>> /\ IsSpace(Head(s)) THEN TrimStart(Tail(s)) ELSE s

RECURSIVE TrimEnd(_)
TrimEnd(s) ==
  IF s # <<>> /\ IsSpace(s[Len(s)])
  THEN TrimEnd(SubSeq(s, 1, Len(s) - 1))
  ELSE s

\* no trimming at all
TrimNothing(s) == s

\* String.prototype.trim
trim(s) == TrimEnd(TrimStart(s))

\* Array.prototype.sort with (a, b) => b[f] - a[f]: stable, descending by f
RECURSIVE InsertDesc(_, _, _)
InsertDesc(x, s, f) ==
  IF s = <<>> THEN <<x>>
  ELSE IF Head(s)[f] >= x[f]
       THEN <<Head(s)>> \o InsertDesc(x, Tail(s), f)
       ELSE <<x>> \o s

RECURSIVE SortDesc(_, _)
SortDesc(s, f) ==
  IF s = <<>> THEN <<>>
  ELSE InsertDesc(s[Len(s)], SortDesc(SubSeq(s, 1, Len(s) - 1), f), f)

\* Array.prototype.find on id: the first match, or "none"
FindIndex(s, id) ==
  IF \E i \in 1..Len(s) : s[i].id = id
  THEN CHOOSE i \in 1..Len(s) :
         s[i].id = id /\ \A j \in 1..(i - 1) : s[j].id # id
  ELSE 0

Has(s, id) == FindIndex(s, id) # 0

\* Array.prototype.filter
RECURSIVE FilterOut(_, _)
FilterOut(s, id) ==
  IF s = <<>> THEN <<>>
  ELSE IF Head(s).id # id
       THEN <<Head(s)>> \o FilterOut(Tail(s), id)
       ELSE FilterOut(Tail(s), id)

RECURSIVE FilterBox(_, _)
FilterBox(s, boxId) ==
  IF s = <<>> THEN <<>>
  ELSE IF Head(s).boxId = boxId
       THEN <<Head(s)>> \o FilterBox(Tail(s), boxId)
       ELSE FilterBox(Tail(s), boxId)

\* the record replaced is moved to the head
MoveToFront(s, id, r) == <<r>> \o FilterOut(s, id)

\* Array.prototype.map(x => x.id === id ? r : x)
ReplaceById(s, id, r) == [i \in 1..Len(s) |-> IF s[i].id = id THEN r ELSE s[i]]

\* v ?? dflt: only a missing property takes the default
OrStringKeepEmpty(d, f, dflt) == IF f \in DOMAIN d THEN d[f] ELSE dflt

\* v || dflt for a string property of a partial record: a missing property
\* and the empty string both take the default
OrString(d, f, dflt) == IF f \in DOMAIN d /\ d[f] # "" THEN d[f] ELSE dflt

\* v || [] for the tags array (every array is truthy)
OrTags(d) == IF "tags" \in DOMAIN d THEN d.tags ELSE <<>>

\* { ...item, ...updates }
Merge(item, u) ==
  [id |-> IF "id" \in DOMAIN u THEN u.id ELSE item.id,
   boxId |-> IF "boxId" \in DOMAIN u THEN u.boxId ELSE item.boxId,
   boxName |-> IF "boxName" \in DOMAIN u THEN u.boxName ELSE item.boxName,
   imageUrl |-> IF "imageUrl" \in DOMAIN u THEN u.imageUrl ELSE item.imageUrl,
   name |-> IF "name" \in DOMAIN u THEN u.name ELSE item.name,
   description |->
     IF "description" \in DOMAIN u THEN u.description ELSE item.description,
   tags |-> IF "tags" \in DOMAIN u THEN u.tags ELSE item.tags,
   timestamp |->
     IF "timestamp" \in DOMAIN u THEN u.timestamp ELSE item.timestamp]

\* IDBObjectStore.put / delete on a table keyed by id
PutRecord(table, r) == {x \in table : x.id # r.id} \cup {r}

DeleteRecord(table, key) == {x \in table : x.id # key}

\* IDBObjectStore.getAll: every record, in key order; keys are random UUIDs,
\* so any order of the records can come back
GetAllResults(table) ==
  {s \in [1..Cardinality(table) -> table] :
     \A i, j \in 1..Cardinality(table) : i # j => s[i] # s[j]}

\* ------------------------------------------------------------------- state
VARIABLES
  boxes,         \* InventoryService.boxes
  items,         \* InventoryService.items
  currentBoxId,  \* InventoryService.currentBoxId
  db,            \* InventoryService.db: "null" or "open"
  store,         \* the IndexedDB tables: [boxes, items], sets of records
  ls,            \* localStorage: [boxes, items], each a legacy blob
  pc,            \* where the startup sequence stands
  mig,           \* records of the blob under migration still to be put
  loaded,        \* loadData's local `boxes`
  inflight,      \* IndexedDB requests issued and not yet completed
  now,           \* Date.now()
  nextId,        \* the next crypto.randomUUID()
  log,           \* console.error messages so far
  addBoxCalls,   \* history: addBox calls so far, [named, blank]
  events,        \* history: operations called and failures injected so far
  session,       \* history: the number of the running session
  refused,       \* history: a storage request failed in this session
  pending,       \* AppComponent: analyzeItem calls awaited by onImageCaptured
  itemDescription,       \* AppComponent.itemDescriptionControl.value
  isProcessing,          \* AppComponent.isProcessing
  isListeningForBox,     \* AppComponent.isListeningForBox
  isListeningForItem,    \* AppComponent.isListeningForItem
  isListeningForSearch,  \* AppComponent.isListeningForSearch
  recognition,   \* AppComponent.recognition: "none", or the recognizer's state
  searching,     \* AppComponent: searchInventory calls awaited by performSearch
  isSearching,           \* AppComponent.isSearching
  searchPerformed,       \* AppComponent.searchPerformed
  started,       \* history: the mode of the last recognition.start() that began
  last           \* history: the step just taken

invVars ==
  <<boxes, items, currentBoxId, db, store, ls, pc, mig, loaded, inflight,
    now, nextId, log, addBoxCalls>>

appVars ==
  <<pending, itemDescription, isProcessing, isListeningForBox,
    isListeningForItem, isListeningForSearch, recognition, searching,
    isSearching, searchPerformed, started>>

vars ==
  <<boxes, items, currentBoxId, db, store, ls, pc, mig, loaded, inflight,
    now, nextId, log, addBoxCalls, events, session, refused, last, pending,
    itemDescription, isProcessing, isListeningForBox, isListeningForItem,
    isListeningForSearch, recognition, searching, isSearching,
    searchPerformed, started>>

Step(op, id, name, arg, found, outcome, pre) ==
  [op |-> op, id |-> id, name |-> name, arg |-> arg, found |-> found,
   outcome |-> outcome, pre |-> pre]

Blob(kind, recs) == [kind |-> kind, recs |-> recs]

\* what an earlier version of the application may have left in localStorage
LegacyStates ==
  {[boxes |-> Blob("absent", <<>>), items |-> Blob("absent", <<>>)],
   [boxes |-> Blob("ok", <<LegacyBox>>),
    items |-> Blob("ok", <<LegacyItem, LegacyItem2>>)],
   [boxes |-> Blob("malformed", <<>>),
    items |-> Blob("ok", <<LegacyItem>>)],
   [boxes |-> Blob("ok", <<LegacyBox>>),
    items |-> Blob("malformed", <<>>)]}

Init ==
  /\ boxes = <<>>
  /\ items = <<>>
  /\ currentBoxId = NoBox
  /\ db = "null"
  /\ store = [boxes |-> {}, items |-> {}]
  /\ ls \in LegacyStates
  /\ pc = "opening"
  /\ mig = <<>>
  /\ loaded = <<>>
  /\ inflight = <<>>
  /\ now = 0
  /\ nextId = 1
  /\ log = {}
  /\ addBoxCalls = [named |-> 0, blank |-> 0]
  /\ events = 0
  /\ session = 1
  /\ refused = FALSE
  /\ last = Step("init", NoBox, <<>>, <<>>, FALSE, "none", <<>>)
  /\ pending = <<>>
  /\ itemDescription = <<>>
  /\ isProcessing = FALSE
  /\ isListeningForBox = FALSE
  /\ isListeningForItem = FALSE
  /\ isListeningForSearch = FALSE
  /\ recognition = "idle"
  /\ searching = 0
  /\ isSearching = FALSE
  /\ searchPerformed = FALSE
  /\ started = "none"

\* --------------------------------------------------------- derived views
\* the newest box, whatever the pointer
currentBoxNewest == IF boxes # <<>> THEN <<Head(boxes)>> ELSE <<>>

currentBox ==
  IF Has(boxes, currentBoxId) THEN <<boxes[FindIndex(boxes, currentBoxId)]>>
  ELSE <<>>

\* the sort without the filter
itemsInCurrentBoxUnfiltered == SortDesc(items, "timestamp")

itemsInCurrentBox == SortDesc(FilterBox(items, currentBoxId), "timestamp")

\* ------------------------------------------------------ IndexedDB helpers
Req(kind, table, value, owner) ==
  [kind |-> kind, table |-> table, value |-> value, owner |-> owner]

RemoveAt(s, i) == SubSeq(s, 1, i - 1) \o SubSeq(s, i + 1, Len(s))

PublicOwners ==
  {"addBox", "addItem", "updateBoxStatus", "updateItem", "deleteItem"}

PublicInflight ==
  Cardinality({i \in 1..Len(inflight) : inflight[i].owner \in PublicOwners})

\* a call that reaches the store is taken only while the queue has room
CanIssue == db = "null" \/ PublicInflight < MaxInflight

\* putToStore / deleteFromStore / getAllFromStore: with no database the
\* promise rejects at once, otherwise a request is queued
Issue(q, kind, table, value, owner) ==
  IF db = "null" THEN q ELSE Append(q, Req(kind, table, value, owner))

IssueOutcome == IF db = "null" THEN "rejected" ELSE "pending"

\* requests on one table complete in the order they were issued
CanComplete(i) ==
  /\ i \in 1..Len(inflight)
  /\ \A j \in 1..(i - 1) : inflight[j].table # inflight[i].table

\* ------------------------------------------------- InventoryService API
\* Date.now(): the clock never runs backwards; it is `now` when last read
\* and may have moved on since
DateNow == {t \in now..(now + 1) : t <= MaxClock}

\* the new box goes to the end of the collection
AddBoxAppend(name) ==
  \E t \in DateNow :
    LET newBox ==
          [id |-> nextId, name |-> name, isFull |-> FALSE, createdAt |-> t]
    IN /\ nextId <= MaxIds
       /\ CanIssue
       /\ now' = t
       /\ boxes' = Append(boxes, newBox)
       /\ currentBoxId' = newBox.id
       /\ nextId' = nextId + 1
       /\ inflight' = Issue(inflight, "put", "boxes", newBox, "addBox")
       /\ addBoxCalls' =
            IF \A i \in 1..Len(name) : name[i] = " "
            THEN [addBoxCalls EXCEPT !.blank = @ + 1]
            ELSE [addBoxCalls EXCEPT !.named = @ + 1]
       /\ UNCHANGED <<items, db, store, ls, pc, mig, loaded, log>>

AddBoxEffect(name) ==
  \E t \in DateNow :
    LET newBox ==
          [id |-> nextId, name |-> name, isFull |-> FALSE, createdAt |-> t]
    IN /\ nextId <= MaxIds
       /\ CanIssue
       /\ now' = t
       /\ boxes' = <<newBox>> \o boxes
       /\ currentBoxId' = newBox.id
       /\ nextId' = nextId + 1
       /\ inflight' = Issue(inflight, "put", "boxes", newBox, "addBox")
       /\ addBoxCalls' =
            IF \A i \in 1..Len(name) : name[i] = " "
            THEN [addBoxCalls EXCEPT !.blank = @ + 1]
            ELSE [addBoxCalls EXCEPT !.named = @ + 1]
       /\ UNCHANGED <<items, db, store, ls, pc, mig, loaded, log>>

AddBox(name) ==
  /\ AddBoxEffect(name)
  /\ last' = Step("addBox", nextId, name, <<>>, TRUE, IssueOutcome, <<>>)

\* the new item as { ...itemData, ...defaults }: a boxId in the data wins
NewItemSpread(boxId, box, itemData, t) ==
  [id |-> nextId,
   boxId |-> IF "boxId" \in DOMAIN itemData THEN itemData.boxId ELSE boxId,
   boxName |-> box.name,
   imageUrl |-> OrString(itemData, "imageUrl", ""),
   name |-> OrString(itemData, "name", "Unknown Item"),
   description |-> OrString(itemData, "description", ""),
   tags |-> OrTags(itemData),
   timestamp |-> t]

NewItem(boxId, box, itemData, t) ==
  [id |-> nextId,
   boxId |-> boxId,
   boxName |-> box.name,
   imageUrl |-> OrString(itemData, "imageUrl", ""),
   name |-> OrString(itemData, "name", "Unknown Item"),
   description |-> OrString(itemData, "description", ""),
   tags |-> OrTags(itemData),
   timestamp |-> t]

\* addItem without the lookup's early return
AddItemUnchecked(boxId, itemData) ==
  LET box == IF Has(boxes, boxId) THEN boxes[FindIndex(boxes, boxId)]
             ELSE [name |-> <<>>]
      newItem == NewItem(boxId, box, itemData, now)
  IN /\ nextId <= MaxIds
     /\ CanIssue
     /\ items' = <<newItem>> \o items
     /\ nextId' = nextId + 1
     /\ inflight' = Issue(inflight, "put", "items", newItem, "addItem")
     /\ last' = Step("addItem", boxId, <<>>, itemData, Has(boxes, boxId),
                     IssueOutcome, <<>>)
     /\ UNCHANGED <<boxes, currentBoxId, db, store, ls, pc, mig, loaded,
                    now, log, addBoxCalls>>

AddItem(boxId, itemData) ==
  IF ~Has(boxes, boxId)
  THEN /\ last' = Step("addItem", boxId, <<>>, <<>>, FALSE, "resolved", <<>>)
       /\ UNCHANGED <<boxes, items, currentBoxId, db, store, ls, pc, mig,
                      loaded, inflight, now, nextId, log, addBoxCalls>>
  ELSE \E t \in DateNow :
         LET box == boxes[FindIndex(boxes, boxId)]
             newItem == NewItem(boxId, box, itemData, t)
         IN /\ nextId <= MaxIds
            /\ CanIssue
            /\ now' = t
            /\ items' = <<newItem>> \o items
            /\ nextId' = nextId + 1
            /\ inflight' = Issue(inflight, "put", "items", newItem, "addItem")
            /\ last' = Step("addItem", boxId, <<>>, itemData, TRUE,
                            IssueOutcome, <<>>)
            /\ UNCHANGED <<boxes, currentBoxId, db, store, ls, pc, mig,
                           loaded, log, addBoxCalls>>

\* history kept with an updateBoxStatus step: the collections before it, or,
\* when it is (boxId, false) right after a found (boxId, true), those before
\* the pair
BeforeStatus(boxId, isFull) ==
  IF /\ last.op = "updateBoxStatus"
     /\ last.found
     /\ last.id = boxId
     /\ last.arg
     /\ ~isFull
  THEN [boxes |-> last.pre.boxes, items |-> last.pre.items, pair |-> TRUE]
  ELSE [boxes |-> boxes, items |-> items, pair |-> FALSE]

\* updateBoxStatus as an upsert: a box that is missing is created
UpdateBoxStatusUpsert(boxId, isFull) ==
  LET box == IF Has(boxes, boxId) THEN boxes[FindIndex(boxes, boxId)]
             ELSE [id |-> boxId, name |-> <<>>, isFull |-> FALSE,
                   createdAt |-> now]
      updatedBox == [box EXCEPT !.isFull = isFull]
  IN /\ CanIssue
     /\ boxes' = IF Has(boxes, boxId)
                 THEN ReplaceById(boxes, boxId, updatedBox)
                 ELSE <<updatedBox>> \o boxes
     /\ inflight' =
          Issue(inflight, "put", "boxes", updatedBox, "updateBoxStatus")
     /\ last' = Step("updateBoxStatus", boxId, <<>>, isFull,
                     Has(boxes, boxId), IssueOutcome,
                     BeforeStatus(boxId, isFull))
     /\ UNCHANGED <<items, currentBoxId, db, store, ls, pc, mig, loaded,
                    now, nextId, log, addBoxCalls>>

UpdateBoxStatus(boxId, isFull) ==
  IF ~Has(boxes, boxId)
  THEN /\ last' = Step("updateBoxStatus", boxId, <<>>, isFull, FALSE,
                       "resolved", BeforeStatus(boxId, isFull))
       /\ UNCHANGED <<boxes, items, currentBoxId, db, store, ls, pc, mig,
                      loaded, inflight, now, nextId, log, addBoxCalls>>
  ELSE LET box == boxes[FindIndex(boxes, boxId)]
           updatedBox == [box EXCEPT !.isFull = isFull]
       IN /\ CanIssue
          /\ boxes' = ReplaceById(boxes, boxId, updatedBox)
          /\ inflight' =
               Issue(inflight, "put", "boxes", updatedBox, "updateBoxStatus")
          /\ last' = Step("updateBoxStatus", boxId, <<>>, isFull, TRUE,
                          IssueOutcome, BeforeStatus(boxId, isFull))
          /\ UNCHANGED <<items, currentBoxId, db, store, ls, pc, mig, loaded,
                         now, nextId, log, addBoxCalls>>

SelectBox(boxId) ==
  /\ currentBoxId' = boxId
  /\ last' = Step("selectBox", boxId, <<>>, <<>>, Has(boxes, boxId), "none",
                  <<>>)
  /\ UNCHANGED <<boxes, items, db, store, ls, pc, mig, loaded, inflight, now,
                 nextId, log, addBoxCalls>>

UpdateItem(itemId, updates) ==
  IF ~Has(items, itemId)
  THEN /\ last' = Step("updateItem", itemId, <<>>, <<>>, FALSE, "resolved",
                       <<>>)
       /\ UNCHANGED <<boxes, items, currentBoxId, db, store, ls, pc, mig,
                      loaded, inflight, now, nextId, log, addBoxCalls>>
  ELSE LET item == items[FindIndex(items, itemId)]
           updatedItem == Merge(item, updates)
       IN /\ CanIssue
          /\ items' = ReplaceById(items, itemId, updatedItem)
          /\ inflight' =
               Issue(inflight, "put", "items", updatedItem, "updateItem")
          /\ last' = Step("updateItem", itemId, <<>>, updates, TRUE,
                          IssueOutcome, <<>>)
          /\ UNCHANGED <<boxes, currentBoxId, db, store, ls, pc, mig, loaded,
                         now, nextId, log, addBoxCalls>>

DeleteItem(itemId) ==
  /\ CanIssue
  /\ items' = FilterOut(items, itemId)
  /\ inflight' = Issue(inflight, "delete", "items", itemId, "deleteItem")
  /\ last' = Step("deleteItem", itemId, <<>>, <<>>, Has(items, itemId),
                  IssueOutcome, <<>>)
  /\ UNCHANGED <<boxes, currentBoxId, db, store, ls, pc, mig, loaded, now,
                 nextId, log, addBoxCalls>>

\* a read of the computed signal itemsInCurrentBox
ReadItemsInCurrentBox ==
  /\ last' = Step("itemsInCurrentBox", currentBoxId, <<>>, itemsInCurrentBox,
                  Has(boxes, currentBoxId), "none", <<>>)
  /\ UNCHANGED <<boxes, items, currentBoxId, db, store, ls, pc, mig, loaded,
                 inflight, now, nextId, log, addBoxCalls>>

\* ------------------------------------------------------- AppComponent
CreateNewBox(name) ==
  IF trim(name) = <<>>
  THEN /\ last' = Step("createNewBox", NoBox, name, <<>>, FALSE, "none", <<>>)
       /\ UNCHANGED <<boxes, items, currentBoxId, db, store, ls, pc, mig,
                      loaded, inflight, now, nextId, log, addBoxCalls>>
  ELSE /\ AddBoxEffect(trim(name))
       /\ last' = Step("createNewBox", nextId, name, <<>>, TRUE,
                       IssueOutcome, <<>>)

BackToBoxList ==
  /\ currentBoxId' = NoBox
  /\ last' = Step("backToBoxList", NoBox, <<>>, <<>>, FALSE, "none", <<>>)
  /\ UNCHANGED <<boxes, items, db, store, ls, pc, mig, loaded, inflight, now,
                 nextId, log, addBoxCalls>>

\* toggleBoxStatus(event, box) on the box shown at position i
ToggleBoxStatus(i) ==
  /\ i \in 1..Len(boxes)
  /\ UpdateBoxStatus(boxes[i].id, ~boxes[i].isFull)

\* finishOrOpenBox: a sealed current box is re-opened; an open one is sealed
\* and the view goes back to the list
FinishOrOpenBox ==
  IF currentBox = <<>>
  THEN /\ last' = Step("finishOrOpenBox", currentBoxId, <<>>, <<>>, FALSE,
                       "none", <<>>)
       /\ UNCHANGED invVars
  ELSE LET box == currentBox[1]
           updatedBox == [box EXCEPT !.isFull = ~box.isFull]
       IN /\ CanIssue
          /\ boxes' = ReplaceById(boxes, box.id, updatedBox)
          /\ inflight' =
               Issue(inflight, "put", "boxes", updatedBox, "updateBoxStatus")
          /\ currentBoxId' = IF box.isFull THEN currentBoxId ELSE NoBox
          /\ last' = Step("finishOrOpenBox", box.id, <<>>, ~box.isFull, TRUE,
                          IssueOutcome, <<>>)
          /\ UNCHANGED <<items, db, store, ls, pc, mig, loaded, now, nextId,
                         log, addBoxCalls>>

\* onImageCaptured up to its await: nothing without a current box, an alert
\* on a sealed one, else analyzeItem is called
OnImageCaptured ==
  /\ UNCHANGED invVars
  /\ UNCHANGED <<itemDescription, isListeningForBox, isListeningForItem,
                 isListeningForSearch, recognition, searching, isSearching,
                 searchPerformed, started>>
  /\ IF currentBoxId = NoBox
     THEN /\ last' = Step("onImageCaptured", NoBox, <<>>, <<>>, FALSE, "none",
                          <<>>)
          /\ UNCHANGED <<pending, isProcessing>>
     ELSE IF currentBox # <<>> /\ currentBox[1].isFull
     THEN /\ last' = Step("onImageCaptured", currentBoxId, <<>>, <<>>, TRUE,
                          "alert", <<>>)
          /\ UNCHANGED <<pending, isProcessing>>
     ELSE /\ Len(pending) < MaxPending
          /\ isProcessing' = TRUE
          /\ pending' = Append(pending, [box |-> currentBoxId])
          /\ last' = Step("onImageCaptured", currentBoxId, <<>>, <<>>,
                          currentBox # <<>>, "pending", <<>>)

\* onImageCaptured after its await: the item goes to the box the pointer
\* names now
AnalyzeResolved(k, analysis) ==
  /\ k \in 1..Len(pending)
  /\ pending' = RemoveAt(pending, k)
  /\ itemDescription' = <<>>
  /\ isProcessing' = FALSE
  /\ UNCHANGED <<isListeningForBox, isListeningForItem, isListeningForSearch,
                 recognition, searching, isSearching, searchPerformed, started>>
  /\ IF ~Has(boxes, currentBoxId)
     THEN /\ last' = Step("analyzed", currentBoxId, <<>>,
                          [captured |-> pending[k].box], FALSE, "resolved",
                          <<>>)
          /\ UNCHANGED invVars
     ELSE \E t \in DateNow :
            LET box == boxes[FindIndex(boxes, currentBoxId)]
                itemData == [imageUrl |-> "img", name |-> analysis.name,
                             description |-> analysis.description,
                             tags |-> analysis.tags]
                newItem == NewItem(currentBoxId, box, itemData, t)
            IN /\ nextId <= MaxIds
               /\ CanIssue
               /\ now' = t
               /\ items' = <<newItem>> \o items
               /\ nextId' = nextId + 1
               /\ inflight' =
                    Issue(inflight, "put", "items", newItem, "addItem")
               /\ last' = Step("analyzed", currentBoxId, <<>>,
                               [captured |-> pending[k].box], TRUE,
                               IssueOutcome, <<>>)
               /\ UNCHANGED <<boxes, currentBoxId, db, store, ls, pc, mig,
                              loaded, log, addBoxCalls>>

\* SpeechRecognition.stop(): a recognizer that is running winds down
Stopped(r) == IF r = "active" THEN "stopping" ELSE r

\* startListening's flags: stopListeningAll, then the mode's flag
Flags(mode) ==
  [box |-> mode = "box", item |-> mode = "item", search |-> mode = "search"]

SetFlags(f) ==
  /\ isListeningForBox' = f.box
  /\ isListeningForItem' = f.item
  /\ isListeningForSearch' = f.search

\* toggleListeningForBox / Item / Search: stopListeningAll when the mode's
\* flag is set, else startListening(mode); recognition.start() throws when
\* the recognizer has not ended yet
ToggleListening(mode) ==
  /\ UNCHANGED invVars
  /\ UNCHANGED <<pending, itemDescription, isProcessing, searching,
                 isSearching, searchPerformed>>
  /\ IF [box |-> isListeningForBox, item |-> isListeningForItem,
         search |-> isListeningForSearch][mode]
     THEN /\ SetFlags(Flags("none"))
          /\ recognition' = Stopped(recognition)
          /\ UNCHANGED started
          /\ last' = Step("toggleListening", NoBox, <<>>, mode, TRUE,
                          "stopped", <<>>)
     ELSE IF recognition = "none"
     THEN /\ UNCHANGED <<isListeningForBox, isListeningForItem,
                         isListeningForSearch, recognition, started>>
          /\ last' = Step("toggleListening", NoBox, <<>>, mode, FALSE,
                          "alert", <<>>)
     ELSE /\ SetFlags(Flags(mode))
          /\ recognition' = IF recognition = "idle" THEN "active"
                            ELSE Stopped(recognition)
          /\ started' = IF recognition = "idle" THEN mode ELSE started
          /\ last' = Step("toggleListening", NoBox, <<>>, mode, FALSE,
                          IF recognition = "idle" THEN "started"
                          ELSE "thrown", <<>>)

\* the flag handleVoiceResult finds set, in the order it tests them
FlagSet ==
  IF isListeningForBox THEN "box"
  ELSE IF isListeningForItem THEN "item"
  ELSE IF isListeningForSearch THEN "search"
  ELSE "none"

\* recognition.onresult: handleVoiceResult(transcript), which ends with
\* stopListeningAll
OnResult(text) ==
  /\ recognition \in {"active", "stopping"}
  /\ SetFlags(Flags("none"))
  /\ recognition' = "ending"
  /\ UNCHANGED <<pending, isProcessing, started>>
  /\ IF FlagSet = "box" /\ trim(text) # <<>>
     THEN /\ AddBoxEffect(trim(text))
          /\ last' = Step("handleVoiceResult", nextId, text,
                          [to |-> "box", started |-> started], TRUE,
                          IssueOutcome, <<>>)
     ELSE /\ UNCHANGED invVars
          /\ last' = Step("handleVoiceResult", NoBox, text,
                          [to |-> FlagSet, started |-> started], FALSE,
                          "none", <<>>)
  /\ itemDescription' =
       IF FlagSet = "item"
       THEN itemDescription
              \o (IF itemDescription # <<>> THEN <<" ">> ELSE <<>>) \o text
       ELSE itemDescription
  /\ IF FlagSet = "search" /\ trim(text) # <<>>
     THEN /\ searching < MaxPending
          /\ searching' = searching + 1
          /\ isSearching' = TRUE
          /\ searchPerformed' = TRUE
     ELSE UNCHANGED <<searching, isSearching, searchPerformed>>

\* performSearch after its await: searchInventory always resolves
SearchResolved ==
  /\ searching > 0
  /\ searching' = searching - 1
  /\ isSearching' = FALSE
  /\ last' = Step("searched", NoBox, <<>>, <<>>, FALSE, "resolved", <<>>)
  /\ UNCHANGED invVars
  /\ UNCHANGED <<pending, itemDescription, isProcessing, isListeningForBox,
                 isListeningForItem, isListeningForSearch, recognition,
                 searchPerformed, started>>

\* recognition.onerror: stopListeningAll; the recognizer ends after it
OnSpeechError ==
  /\ recognition \in {"active", "stopping"}
  /\ SetFlags(Flags("none"))
  /\ recognition' = "ending"
  /\ log' = log \cup {"Speech error"}
  /\ last' = Step("speechError", NoBox, <<>>, <<>>, FALSE, "none", <<>>)
  /\ UNCHANGED <<boxes, items, currentBoxId, db, store, ls, pc, mig, loaded,
                 inflight, now, nextId, addBoxCalls>>
  /\ UNCHANGED <<pending, itemDescription, isProcessing, searching,
                 isSearching, searchPerformed, started>>

\* recognition.onend: stopListeningAll; the recognizer can be started again
OnSpeechEnd ==
  /\ recognition \in {"active", "stopping", "ending"}
  /\ SetFlags(Flags("none"))
  /\ recognition' = "idle"
  /\ last' = Step("speechEnd", NoBox, <<>>, <<>>, FALSE, "none", <<>>)
  /\ UNCHANGED invVars
  /\ UNCHANGED <<pending, itemDescription, isProcessing, searching,
                 isSearching, searchPerformed, started>>

\* ------------------------------------------------------------- startup
\* the page is loaded again: a new InventoryService over the localStorage
\* and the database the last session left; a session ends once the requests
\* it issued have completed
Restart ==
  /\ pc \in {"ready", "failed"}
  /\ inflight = <<>>
  /\ boxes' = <<>>
  /\ items' = <<>>
  /\ currentBoxId' = NoBox
  /\ db' = "null"
  /\ pc' = "opening"
  /\ mig' = <<>>
  /\ loaded' = <<>>
  /\ log' = {}
  /\ last' = Step("restart", NoBox, <<>>, <<>>, FALSE, "none", <<>>)
  /\ UNCHANGED <<store, ls, inflight, now, nextId, addBoxCalls>>

Startup(p, m, q, l, lg) ==
  [pc |-> p, mig |-> m, inflight |-> q, ls |-> l, log |-> lg]

\* loadData up to its first await
BeginLoad(q, l, lg) ==
  Startup("loadBoxes", <<>>, Append(q, Req("getAll", "boxes", 0, "load")),
          l, lg)

\* migrateFromLocalStorage, the items blob, up to its first await
BeginItems(q, l, lg) ==
  IF l.items.kind = "absent" THEN BeginLoad(q, l, lg)
  ELSE IF l.items.kind = "malformed"
  THEN BeginLoad(q, l, lg \cup {"Error migrating items"})
  ELSE IF l.items.recs = <<>>
  THEN BeginLoad(q, [l EXCEPT !.items = Blob("absent", <<>>)], lg)
  ELSE Startup("migItems", Tail(l.items.recs),
               Append(q, Req("put", "items", Head(l.items.recs), "migrate")),
               l, lg)

\* migrateFromLocalStorage with one try around both collections: a malformed
\* boxes blob ends the migration
BeginBoxesOneTry(q, l, lg) ==
  IF l.boxes.kind = "absent" THEN BeginItems(q, l, lg)
  ELSE IF l.boxes.kind = "malformed"
  THEN BeginLoad(q, l, lg \cup {"Error migrating boxes"})
  ELSE IF l.boxes.recs = <<>>
  THEN BeginItems(q, [l EXCEPT !.boxes = Blob("absent", <<>>)], lg)
  ELSE Startup("migBoxes", Tail(l.boxes.recs),
               Append(q, Req("put", "boxes", Head(l.boxes.recs), "migrate")),
               l, lg)

\* migrateFromLocalStorage, the boxes blob, up to its first await
BeginBoxes(q, l, lg) ==
  IF l.boxes.kind = "absent" THEN BeginItems(q, l, lg)
  ELSE IF l.boxes.kind = "malformed"
  THEN BeginItems(q, l, lg \cup {"Error migrating boxes"})
  ELSE IF l.boxes.recs = <<>>
  THEN BeginItems(q, [l EXCEPT !.boxes = Blob("absent", <<>>)], lg)
  ELSE Startup("migBoxes", Tail(l.boxes.recs),
               Append(q, Req("put", "boxes", Head(l.boxes.recs), "migrate")),
               l, lg)

\* the await of a migration put returns; the blob is kept when the loop ends
MigratePutDoneKeeping(q) ==
  IF mig # <<>>
  THEN Startup(pc, Tail(mig),
               Append(q, Req("put", IF pc = "migBoxes" THEN "boxes"
                                    ELSE "items", Head(mig), "migrate")),
               ls, log)
  ELSE IF pc = "migBoxes" THEN BeginItems(q, ls, log)
  ELSE BeginLoad(q, ls, log)

\* the await of a migration put returns
MigratePutDone(q) ==
  IF mig # <<>>
  THEN Startup(pc, Tail(mig),
               Append(q, Req("put", IF pc = "migBoxes" THEN "boxes"
                                    ELSE "items", Head(mig), "migrate")),
               ls, log)
  ELSE IF pc = "migBoxes"
  THEN BeginItems(q, [ls EXCEPT !.boxes = Blob("absent", <<>>)], log)
  ELSE BeginLoad(q, [ls EXCEPT !.items = Blob("absent", <<>>)], log)

\* the await of a migration put throws; the blob is removed all the same
MigratePutFailedRemoving(q) ==
  IF pc = "migBoxes"
  THEN BeginItems(q, [ls EXCEPT !.boxes = Blob("absent", <<>>)],
                  log \cup {"Error migrating boxes"})
  ELSE BeginLoad(q, [ls EXCEPT !.items = Blob("absent", <<>>)],
                 log \cup {"Error migrating items"})

\* the await of a migration put throws
MigratePutFailed(q) ==
  IF pc = "migBoxes"
  THEN BeginItems(q, ls, log \cup {"Error migrating boxes"})
  ELSE BeginLoad(q, ls, log \cup {"Error migrating items"})

SetStartup(st) ==
  /\ pc' = st.pc
  /\ mig' = st.mig
  /\ inflight' = st.inflight
  /\ ls' = st.ls
  /\ log' = st.log

\* request.onsuccess of indexedDB.open
OpenSuccess ==
  /\ pc = "opening"
  /\ db' = "open"
  /\ SetStartup(BeginBoxes(inflight, ls, log))
  /\ last' = Step("openSuccess", NoBox, <<>>, <<>>, FALSE, "none", <<>>)
  /\ UNCHANGED <<boxes, items, currentBoxId, store, loaded, now, nextId,
                 addBoxCalls>>

\* request.onerror of indexedDB.open
OpenError ==
  /\ pc = "opening"
  /\ pc' = "failed"
  /\ log' = log \cup {"IndexedDB error"}
  /\ last' = Step("openError", NoBox, <<>>, <<>>, FALSE, "none", <<>>)
  /\ UNCHANGED <<boxes, items, currentBoxId, db, store, ls, mig, loaded,
                 inflight, now, nextId, addBoxCalls>>

\* --------------------------------------------------- request completions
ApplyRequest(r) ==
  IF r.kind = "put"
  THEN [store EXCEPT ![r.table] = PutRecord(@, r.value)]
  ELSE IF r.kind = "delete"
  THEN [store EXCEPT ![r.table] = DeleteRecord(@, r.value)]
  ELSE store

\* request.onsuccess of a put or delete issued by a public operation
PublicSuccess(i) ==
  /\ CanComplete(i)
  /\ inflight[i].owner \in PublicOwners
  /\ store' = ApplyRequest(inflight[i])
  /\ inflight' = RemoveAt(inflight, i)
  /\ last' = Step("completed", NoBox, <<>>, inflight[i], TRUE, "resolved",
                  <<>>)
  /\ UNCHANGED <<boxes, items, currentBoxId, db, ls, pc, mig, loaded, now,
                 nextId, log, addBoxCalls>>

\* request.onerror of a put or delete issued by a public operation,
\* undoing the optimistic update
PublicErrorRollback(i) ==
  /\ CanComplete(i)
  /\ inflight[i].owner \in PublicOwners
  /\ inflight' = RemoveAt(inflight, i)
  /\ IF inflight[i].table = "boxes"
     THEN /\ boxes' = FilterOut(boxes, inflight[i].value.id)
          /\ UNCHANGED items
     ELSE /\ items' = IF inflight[i].kind = "put"
                      THEN FilterOut(items, inflight[i].value.id)
                      ELSE items
          /\ UNCHANGED boxes
  /\ last' = Step("completed", NoBox, <<>>, inflight[i], TRUE, "rejected",
                  <<>>)
  /\ UNCHANGED <<currentBoxId, db, store, ls, pc, mig, loaded, now, nextId,
                 log, addBoxCalls>>

\* request.onerror of a put or delete issued by a public operation: the
\* operation's promise rejects, nothing catches it
PublicError(i) ==
  /\ CanComplete(i)
  /\ inflight[i].owner \in PublicOwners
  /\ inflight' = RemoveAt(inflight, i)
  /\ last' = Step("completed", NoBox, <<>>, inflight[i], TRUE, "rejected",
                  <<>>)
  /\ UNCHANGED <<boxes, items, currentBoxId, db, store, ls, pc, mig, loaded,
                 now, nextId, log, addBoxCalls>>

\* request.onsuccess of a migration put
MigrateSuccess(i) ==
  /\ CanComplete(i)
  /\ inflight[i].owner = "migrate"
  /\ store' = ApplyRequest(inflight[i])
  /\ SetStartup(MigratePutDone(RemoveAt(inflight, i)))
  /\ last' = Step("migrated", NoBox, <<>>, inflight[i], TRUE, "resolved",
                  <<>>)
  /\ UNCHANGED <<boxes, items, currentBoxId, db, loaded, now, nextId,
                 addBoxCalls>>

\* request.onerror of a migration put
MigrateError(i) ==
  /\ CanComplete(i)
  /\ inflight[i].owner = "migrate"
  /\ SetStartup(MigratePutFailed(RemoveAt(inflight, i)))
  /\ last' = Step("migrated", NoBox, <<>>, inflight[i], TRUE, "rejected",
                  <<>>)
  /\ UNCHANGED <<boxes, items, currentBoxId, db, store, loaded, now, nextId,
                 addBoxCalls>>

\* request.onsuccess of loadData's getAll('boxes')
LoadBoxesSuccess(i) ==
  /\ CanComplete(i)
  /\ inflight[i].owner = "load"
  /\ pc = "loadBoxes"
  /\ \E res \in GetAllResults(store.boxes) : loaded' = res
  /\ inflight' =
       Append(RemoveAt(inflight, i), Req("getAll", "items", 0, "load"))
  /\ pc' = "loadItems"
  /\ last' = Step("loadData", NoBox, <<>>, inflight[i], TRUE, "pending", <<>>)
  /\ UNCHANGED <<boxes, items, currentBoxId, db, store, ls, mig, now, nextId,
                 log, addBoxCalls>>

\* the name of the box with the given id among the boxes loaded, or none
LoadedBoxName(boxId) ==
  IF Has(loaded, boxId) THEN loaded[FindIndex(loaded, boxId)].name ELSE <<>>

\* loadData refreshing each item's boxName from the boxes it has loaded
LoadItemsJoin(i) ==
  /\ CanComplete(i)
  /\ inflight[i].owner = "load"
  /\ pc = "loadItems"
  /\ boxes' = SortDesc(loaded, "createdAt")
  /\ \E res \in GetAllResults(store.items) :
       LET sorted == SortDesc(res, "timestamp")
       IN items' = [j \in 1..Len(sorted) |->
                     [sorted[j] EXCEPT
                        !.boxName = LoadedBoxName(sorted[j].boxId)]]
  /\ inflight' = RemoveAt(inflight, i)
  /\ pc' = "ready"
  /\ loaded' = <<>>
  /\ last' = Step("loadData", NoBox, <<>>, inflight[i], TRUE, "resolved",
                  <<>>)
  /\ UNCHANGED <<currentBoxId, db, store, ls, mig, now, nextId, log,
                 addBoxCalls>>

\* request.onsuccess of loadData's getAll('items'): both signals are set
LoadItemsSuccess(i) ==
  /\ CanComplete(i)
  /\ inflight[i].owner = "load"
  /\ pc = "loadItems"
  /\ boxes' = SortDesc(loaded, "createdAt")
  /\ \E res \in GetAllResults(store.items) :
       items' = SortDesc(res, "timestamp")
  /\ inflight' = RemoveAt(inflight, i)
  /\ pc' = "ready"
  /\ loaded' = <<>>
  /\ last' = Step("loadData", NoBox, <<>>, inflight[i], TRUE, "resolved",
                  <<>>)
  /\ UNCHANGED <<currentBoxId, db, store, ls, mig, now, nextId, log,
                 addBoxCalls>>

\* request.onerror of either getAll: caught and logged by loadData
LoadError(i) ==
  /\ CanComplete(i)
  /\ inflight[i].owner = "load"
  /\ inflight' = RemoveAt(inflight, i)
  /\ pc' = "ready"
  /\ loaded' = <<>>
  /\ log' = log \cup {"Error loading data from DB"}
  /\ last' = Step("loadData", NoBox, <<>>, inflight[i], TRUE, "rejected",
                  <<>>)
  /\ UNCHANGED <<boxes, items, currentBoxId, db, store, ls, mig, now, nextId,
                 addBoxCalls>>

\* ---------------------------------------------------------- specification
BoxIdInputs ==
  {boxes[i].id : i \in 1..Len(boxes)}
    \cup {items[i].boxId : i \in 1..Len(items)} \cup {GhostId}

ItemIdInputs == {items[i].id : i \in 1..Len(items)} \cup {GhostId}

\* an operation called from outside, or a request the store fails: the
\* environment's events, within their budget
Called(A) ==
  /\ events < MaxEvents
  /\ A
  /\ events' = events + 1
  /\ refused' = (refused \/ last'.outcome = "rejected")
  /\ UNCHANGED session
  /\ UNCHANGED appVars

\* a callback of the event loop
Callback(A) ==
  /\ A
  /\ refused' = (refused \/ last'.outcome = "rejected")
  /\ UNCHANGED <<events, session>>
  /\ UNCHANGED appVars

\* the next session begins, within the budgets of sessions and of events
NewSession(A) ==
  /\ events < MaxEvents
  /\ session < MaxSessions
  /\ A
  /\ events' = events + 1
  /\ session' = session + 1
  /\ refused' = FALSE
  /\ UNCHANGED appVars

Next ==
  \/ \E n \in 1..Len(NameInputs) : Called(AddBox(NameInputs[n]))
  \/ \E n \in 1..Len(NameInputs) : Called(CreateNewBox(NameInputs[n]))
  \/ \E id \in BoxIdInputs, d \in 1..Len(ItemDataInputs) :
       Called(AddItem(id, ItemDataInputs[d]))
  \/ \E id \in BoxIdInputs, f \in BOOLEAN : Called(UpdateBoxStatus(id, f))
  \/ \E id \in BoxIdInputs : Called(SelectBox(id))
  \/ \E id \in ItemIdInputs, u \in 1..Len(UpdateInputs) :
       Called(UpdateItem(id, UpdateInputs[u]))
  \/ \E id \in ItemIdInputs : Called(DeleteItem(id))
  \/ Called(ReadItemsInCurrentBox)
  \/ Called(BackToBoxList)
  \/ Callback(OpenSuccess)
  \/ Callback(OpenError)
  \/ \E i \in 1..Len(inflight) : Callback(PublicSuccess(i))
  \/ \E i \in 1..Len(inflight) : Called(PublicError(i))
  \/ \E i \in 1..Len(inflight) : Callback(MigrateSuccess(i))
  \/ \E i \in 1..Len(inflight) : Called(MigrateError(i))
  \/ \E i \in 1..Len(inflight) : Callback(LoadBoxesSuccess(i))
  \/ \E i \in 1..Len(inflight) : Callback(LoadItemsSuccess(i))
  \/ \E i \in 1..Len(inflight) : Called(LoadError(i))
  \/ NewSession(Restart)

Spec == Init /\ [][Next]_vars

\* ------------------------------------- specification of the orchestration
\* AppComponent over the service, on an installation without legacy data;
\* the browser has a speech recognizer or has none
AppInit ==
  /\ boxes = <<>>
  /\ items = <<>>
  /\ currentBoxId = NoBox
  /\ db = "null"
  /\ store = [boxes |-> {}, items |-> {}]
  /\ ls = [boxes |-> Blob("absent", <<>>), items |-> Blob("absent", <<>>)]
  /\ pc = "opening"
  /\ mig = <<>>
  /\ loaded = <<>>
  /\ inflight = <<>>
  /\ now = 0
  /\ nextId = 1
  /\ log = {}
  /\ addBoxCalls = [named |-> 0, blank |-> 0]
  /\ events = 0
  /\ session = 1
  /\ refused = FALSE
  /\ last = Step("init", NoBox, <<>>, <<>>, FALSE, "none", <<>>)
  /\ pending = <<>>
  /\ itemDescription = <<>>
  /\ isProcessing = FALSE
  /\ isListeningForBox = FALSE
  /\ isListeningForItem = FALSE
  /\ isListeningForSearch = FALSE
  /\ recognition \in {"none", "idle"}
  /\ searching = 0
  /\ isSearching = FALSE
  /\ searchPerformed = FALSE
  /\ started = "none"

\* a handler of AppComponent run on a user's gesture, within the budget
UserEvent(A) ==
  /\ events < MaxEvents
  /\ A
  /\ events' = events + 1
  /\ refused' = (refused \/ last'.outcome = "rejected")
  /\ UNCHANGED session

\* a handler of AppComponent run by the event loop
AppCallback(A) ==
  /\ A
  /\ refused' = (refused \/ last'.outcome = "rejected")
  /\ UNCHANGED <<events, session>>

AppNext ==
  \/ \E n \in 1..Len(NameInputs) : Called(CreateNewBox(NameInputs[n]))
  \/ \E i \in 1..Len(boxes) : Called(SelectBox(boxes[i].id))
  \/ Called(BackToBoxList)
  \/ \E i \in 1..Len(boxes) : Called(ToggleBoxStatus(i))
  \/ Called(FinishOrOpenBox)
  \/ UserEvent(OnImageCaptured)
  \/ \E a \in 1..Len(AnalysisInputs) :
       AppCallback(AnalyzeResolved(1, AnalysisInputs[a]))
  \/ \E m \in ListeningModes : UserEvent(ToggleListening(m))
  \/ \E x \in 1..Len(TranscriptInputs) :
       AppCallback(OnResult(TranscriptInputs[x]))
  \/ AppCallback(SearchResolved)
  \/ AppCallback(OnSpeechError)
  \/ AppCallback(OnSpeechEnd)
  \/ Callback(OpenSuccess)
  \/ \E i \in 1..Len(inflight) : Callback(PublicSuccess(i))
  \/ \E i \in 1..Len(inflight) : Callback(LoadBoxesSuccess(i))
  \/ \E i \in 1..Len(inflight) : Callback(LoadItemsSuccess(i))

AppSpec == AppInit /\ [][AppNext]_vars

\* ------------------------------------------------------------------ claims
Blank(s) == \A i \in 1..Len(s) : s[i] = " "

MemoryUnchanged ==
  /\ boxes' = boxes
  /\ items' = items
  /\ currentBoxId' = currentBoxId

SortedDescBy(s, f) == \A i, j \in 1..Len(s) : i < j => s[i][f] >= s[j][f]

Occurrences(s, x) == Cardinality({i \in 1..Len(s) : s[i] = x})

NoLegacyBoxes ==
  /\ ls.boxes.kind # "ok"
  /\ \A r \in store.boxes : r.id # LegacyBox.id

\* C2, as claimed: in the first session of an installation with no legacy
\* boxes, while every addBox call so far had a non-blank name, the box
\* collection is as long as the number of those calls and is ordered newest
\* first by createdAt.
C2_LengthAndOrder ==
  (session = 1 /\ addBoxCalls.blank = 0 /\ NoLegacyBoxes)
    => (Len(boxes) = addBoxCalls.named /\ SortedDescBy(boxes, "createdAt"))

\* C3, as claimed: a step addItem(boxId, data) on a present box prepends one
\* item that carries every field supplied in data, and the default of every
\* field data leaves out.
C3_SuppliedFieldsUsed ==
  [][(last'.op = "addItem" /\ last'.found)
       => LET d == last'.arg
              it == Head(items')
          IN /\ Len(items') = Len(items) + 1
             /\ it.name = IF "name" \in DOMAIN d THEN d.name
                          ELSE "Unknown Item"
             /\ it.description = IF "description" \in DOMAIN d
                                 THEN d.description ELSE ""
             /\ it.imageUrl = IF "imageUrl" \in DOMAIN d THEN d.imageUrl
                              ELSE ""
             /\ it.tags = IF "tags" \in DOMAIN d THEN d.tags ELSE <<>>]_vars

\* C3, amended: a step addItem(boxId, data) on a present box prepends exactly
\* one item with the given boxId and the box's name; name, description,
\* imageUrl and tags come from data when supplied and not the empty string,
\* and are "Unknown Item", "", "" and the empty sequence otherwise; a boxId
\* in data is ignored.
C3_AddItemDefaults ==
  [][(last'.op = "addItem" /\ last'.found)
       => LET d == last'.arg
              it == Head(items')
          IN /\ Len(items') = Len(items) + 1
             /\ \A i \in 1..Len(items) : items'[i + 1] = items[i]
             /\ boxes' = boxes
             /\ it.boxId = last'.id
             /\ \E i \in 1..Len(boxes) :
                  boxes[i].id = last'.id /\ it.boxName = boxes[i].name
             /\ it.name = IF "name" \in DOMAIN d /\ d.name # "" THEN d.name
                          ELSE "Unknown Item"
             /\ it.description = IF "description" \in DOMAIN d
                                 THEN d.description ELSE ""
             /\ it.imageUrl = IF "imageUrl" \in DOMAIN d THEN d.imageUrl
                              ELSE ""
             /\ it.tags = IF "tags" \in DOMAIN d THEN d.tags ELSE <<>>]_vars

C3_Witness ==
  /\ last.op = "addItem"
  /\ last.found
  /\ DOMAIN last.arg = {}
  /\ Len(items) >= 2
  /\ Head(items).name = "Unknown Item"
  /\ Head(items).boxName # <<>>

\* C4: a step addItem(boxId, data) whose boxId matches no box changes no
\* collection and no pointer, queues no durable write, logs nothing and its
\* promise resolves.
C4_AddItemUnknownBoxIsNoop ==
  [][(last'.op = "addItem" /\ ~last'.found)
       => (MemoryUnchanged /\ inflight' = inflight /\ store' = store
           /\ log' = log /\ last'.outcome = "resolved")]_vars

C4_Witness ==
  /\ last.op = "addItem"
  /\ ~last.found
  /\ boxes # <<>>
  /\ items # <<>>

ViewOk ==
  LET v == itemsInCurrentBox
  IN /\ \A i \in 1..Len(v) : v[i].boxId = currentBoxId
     /\ Len(v) =
          Cardinality({i \in 1..Len(items) : items[i].boxId = currentBoxId})
     /\ \A i \in 1..Len(items) :
          items[i].boxId = currentBoxId
            => Occurrences(v, items[i]) = Occurrences(items, items[i])
     /\ SortedDescBy(v, "timestamp")
     /\ currentBoxId = NoBox => v = <<>>

\* C5, as claimed: in every state itemsInCurrentBox holds exactly the items
\* of the pointed box, newest first, and is empty when the pointer is null,
\* when no item carries the pointed id, and when the pointer matches no box.
C5_DanglingPointerIsEmpty ==
  /\ ViewOk
  /\ ~Has(boxes, currentBoxId) => itemsInCurrentBox = <<>>

\* C5, amended: in every state itemsInCurrentBox holds exactly the items
\* whose boxId is the pointer, newest first, and is empty when the pointer
\* is null or no item carries it (a pointer that matches no box still
\* selects the items that carry its id); a read of the view returns it and
\* leaves the item collection as it was.
C5_ItemsInCurrentBox ==
  /\ []ViewOk
  /\ [][(last'.op = "itemsInCurrentBox")
          => (items' = items /\ last'.arg = itemsInCurrentBox')]_vars

C5_Witness ==
  /\ Len(itemsInCurrentBox) >= 2
  /\ itemsInCurrentBox # FilterBox(items, currentBoxId)

StatusPair == last.op = "updateBoxStatus" /\ last.pre.pair

\* C6, as claimed: right after updateBoxStatus(id, true) followed by
\* updateBoxStatus(id, false) on an existing box, the box and item
\* collections are what they were before the pair.
C6_RestoresOriginal ==
  StatusPair => (boxes = last.pre.boxes /\ items = last.pre.items)

\* C6, amended: right after that pair the box has isFull = false, which is
\* its value before the pair only if it was not sealed then; its other
\* fields and position, every other box and every item are as before.
C6_SealThenUnseal ==
  StatusPair
    => /\ Len(boxes) = Len(last.pre.boxes)
       /\ \A i \in 1..Len(boxes) :
            boxes[i] = IF last.pre.boxes[i].id = last.id
                       THEN [last.pre.boxes[i] EXCEPT !.isFull = FALSE]
                       ELSE last.pre.boxes[i]
       /\ items = last.pre.items

C6_Witness ==
  /\ StatusPair
  /\ Len(boxes) >= 2
  /\ boxes[2].id = last.id
  /\ last.pre.boxes[2].isFull

\* C7, as claimed: a step deleteItem(itemId) whose id matches no item leaves
\* the collections and the pointer as they were and its promise does not
\* reject, whatever the state of the database.
C7_DeleteMissingIsSilent ==
  [][(last'.op = "deleteItem" /\ ~last'.found)
       => (MemoryUnchanged /\ last'.outcome # "rejected")]_vars

C9_NoFailureSurfaced ==
  (last.op \in PublicOwners \cup {"completed"}) => last.outcome # "rejected"

EffectApplied ==
  /\ (last'.op = "addBox")
       => (Len(boxes') = Len(boxes) + 1 /\ Head(boxes').id = last'.id
           /\ currentBoxId' = last'.id)
  /\ (last'.op = "addItem" /\ last'.found)
       => (Len(items') = Len(items) + 1 /\ Head(items').boxId = last'.id)
  /\ (last'.op = "updateBoxStatus" /\ last'.found)
       => \E i \in 1..Len(boxes') :
            boxes'[i].id = last'.id /\ boxes'[i].isFull = last'.arg
  /\ (last'.op = "updateItem" /\ last'.found)
       => \E i \in 1..Len(items') :
            /\ items'[i].id = last'.id
            /\ \A f \in DOMAIN last'.arg : items'[i][f] = last'.arg[f]
  /\ (last'.op = "deleteItem")
       => \A i \in 1..Len(items') : items'[i].id # last'.id

IssuedAfterEffect ==
  (last'.op \in PublicOwners /\ last'.outcome = "pending")
    => LET r == inflight'[Len(inflight')]
       IN /\ Len(inflight') = Len(inflight) + 1
          /\ r.owner = last'.op
          /\ (r.kind = "put" /\ r.table = "boxes") => r.value \in Range(boxes')
          /\ (r.kind = "put" /\ r.table = "items") => r.value \in Range(items')
          /\ (r.kind = "delete")
               => \A i \in 1..Len(items') : items'[i].id # r.value

\* C10: a mutation's in-memory effect is in place in the step that issues its
\* durable write, also when the write is refused at once for want of a
\* database; and the step in which a queued write fails changes no
\* collection and no pointer.
C10_OptimisticNoRollback ==
  [][/\ EffectApplied
     /\ IssuedAfterEffect
     /\ (last'.op = "completed" /\ last'.outcome = "rejected")
          => MemoryUnchanged]_vars

C10_Witness ==
  /\ last.op = "completed"
  /\ last.outcome = "rejected"
  /\ last.arg.kind = "put"
  /\ last.arg.table = "items"
  /\ last.arg.value \in Range(items)
  /\ last.arg.value \notin store.items

\* the database is open and loaded, every request issued has completed and
\* none was refused or failed in this session
Quiet == pc = "ready" /\ db = "open" /\ inflight = <<>> /\ ~refused

\* what loadData makes of a table: getAll, then the sort
Reloads(table, f) == {SortDesc(res, f) : res \in GetAllResults(table)}

\* C11, as claimed: once every durable write and delete of the session has
\* completed with success on the open database, a reload of both tables
\* (getAll, sorted as loadData sorts) yields the records of the in-memory
\* box and item collections, whatever order getAll returns.
C11_RoundTrip ==
  Quiet
    => /\ \A b \in Reloads(store.boxes, "createdAt") : Range(b) = Range(boxes)
       /\ \A i \in Reloads(store.items, "timestamp") : Range(i) = Range(items)

MigrationErrors == {"Error migrating boxes", "Error migrating items"}

BlobsAbsent(l) == l.boxes.kind = "absent" /\ l.items.kind = "absent"

MigrationPassed == pc \in {"loadBoxes", "loadItems", "ready"}

\* C12: a migration run that ends without an error leaves both blobs
\* absent; and a run that finds both blobs absent (the second run after a
\* successful one, or a run on an installation without legacy data) goes
\* straight to loadData: it queues nothing but loadData's getAll, removes no
\* blob, logs nothing and leaves both tables as they were; no migration put
\* is in flight outside a migration run.
C12_MigrationIdempotent ==
  [][/\ (MigrationPassed' /\ log' \cap MigrationErrors = {})
          => BlobsAbsent(ls')
     /\ (last'.op = "openSuccess" /\ BlobsAbsent(ls))
          => /\ ls' = ls
             /\ store' = store
             /\ log' = log
             /\ mig' = <<>>
             /\ pc' = "loadBoxes"
             /\ inflight' =
                  Append(inflight, Req("getAll", "boxes", 0, "load"))
     /\ MigrationPassed'
          => \A i \in 1..Len(inflight') : inflight'[i].owner # "migrate"]_vars

C12_Witness ==
  /\ session = 2
  /\ last.op = "openSuccess"
  /\ pc = "loadBoxes"
  /\ BlobsAbsent(ls)
  /\ LegacyBox \in store.boxes
  /\ {LegacyItem, LegacyItem2} \subseteq store.items

Removed(t) == ls[t].kind = "ok" /\ ls'[t].kind = "absent"

\* C13: the step that removes a collection's blob is the successful
\* completion of a migration put on that collection's table, and after it
\* the table holds every record of the blob; the step in which a migration
\* put fails removes no blob and logs the collection's error; and no other
\* step changes localStorage.
C13_BlobRemovedAfterWrites ==
  [][/\ \A t \in {"boxes", "items"} :
          Removed(t)
            => /\ last'.op = "migrated"
               /\ last'.outcome = "resolved"
               /\ last'.arg.table = t
               /\ \A r \in Range(ls[t].recs) : r \in store'[t]
     /\ (last'.op = "migrated" /\ last'.outcome = "rejected")
          => /\ ls' = ls
             /\ store' = store
             /\ (IF last'.arg.table = "boxes" THEN "Error migrating boxes"
                 ELSE "Error migrating items") \in log'
     /\ (ls' # ls) => (Removed("boxes") \/ Removed("items"))]_vars

\* the put of the legacy box failed and its blob is still there; both items
\* were written and their blob is gone
C13_Witness ==
  /\ last.op = "migrated"
  /\ last.outcome = "resolved"
  /\ "Error migrating boxes" \in log
  /\ ls.boxes = Blob("ok", <<LegacyBox>>)
  /\ store.boxes = {}
  /\ ls.items.kind = "absent"
  /\ {LegacyItem, LegacyItem2} \subseteq store.items

MigrationError(t) ==
  IF t = "boxes" THEN "Error migrating boxes" ELSE "Error migrating items"

\* C14: a collection whose blob is malformed keeps its blob in every step,
\* never has a migration put in flight on its table, and has its error in
\* the log once the migration is over; and in the step that ends the
\* migration, a collection whose blob parsed and whose puts did not fail has
\* every record of the blob in its table and its blob removed, whether or
\* not the other collection's blob is malformed.
C14_MalformedBlobIsolated ==
  [][/\ \A t \in {"boxes", "items"} :
          ls[t].kind = "malformed"
            => /\ ls'[t] = ls[t]
               /\ \A i \in 1..Len(inflight') :
                    ~(inflight'[i].owner = "migrate" /\ inflight'[i].table = t)
               /\ MigrationPassed' => MigrationError(t) \in log'
     /\ (~MigrationPassed /\ MigrationPassed')
          => \A u \in {"boxes", "items"} :
               (ls[u].kind = "ok" /\ MigrationError(u) \notin log')
                 => /\ ls'[u].kind = "absent"
                    /\ \A r \in Range(ls[u].recs) : r \in store'[u]]_vars

\* the boxes blob is malformed and still there, the boxes table is empty;
\* the item of the other blob is in its table and that blob is gone
C14_Witness ==
  /\ pc = "loadBoxes"
  /\ ls.boxes.kind = "malformed"
  /\ "Error migrating boxes" \in log
  /\ store.boxes = {}
  /\ ls.items.kind = "absent"
  /\ store.items = {LegacyItem}

\* C15, as claimed: right after a read of one collection fails during the
\* load, the failure is in the log and the other collection has been loaded
\* from its own table.
C15_LoadFailureIsolated ==
  (last.op = "loadData" /\ last.outcome = "rejected")
    => /\ "Error loading data from DB" \in log
       /\ (last.arg.table = "items") => Range(boxes) = store.boxes
       /\ (last.arg.table = "boxes") => Range(items) = store.items

CurrentBoxOk ==
  IF \E i \in 1..Len(boxes) : boxes[i].id = currentBoxId
  THEN /\ Len(currentBox) = 1
       /\ currentBox[1].id = currentBoxId
       /\ currentBox[1] \in Range(boxes)
  ELSE currentBox = <<>>

\* C16: in every state currentBox is the box whose id is the pointer, and
\* none when the pointer is null or matches no box; a step selectBox(id)
\* sets the pointer to id, whether or not a box has that id, and leaves the
\* box collection, the item collection, the tables, the request queue and
\* localStorage as they were.
C16_CurrentBoxAndSelect ==
  [][/\ CurrentBoxOk'
     /\ (currentBoxId' = NoBox) => currentBox' = <<>>
     /\ (last'.op = "selectBox")
          => /\ currentBoxId' = last'.id
             /\ boxes' = boxes
             /\ items' = items
             /\ store' = store
             /\ inflight' = inflight
             /\ ls' = ls]_vars

\* the pointer was set to an id no box has, while the collection holds two
\* boxes
C16_Witness ==
  /\ last.op = "selectBox"
  /\ ~last.found
  /\ currentBoxId = GhostId
  /\ Len(boxes) >= 2
  /\ currentBox = <<>>

C18_MissingTargetIsNoop ==
  [][(last'.op \in {"updateBoxStatus", "updateItem"} /\ ~last'.found)
       => /\ MemoryUnchanged
          /\ inflight' = inflight
          /\ store' = store
          /\ log' = log
          /\ last'.outcome = "resolved"]_vars

\* updateItem was called with an id no item has, before the database was
\* open, on collections that are not empty
C18_Witness ==
  /\ last.op = "updateItem"
  /\ ~last.found
  /\ last.id = GhostId
  /\ db = "null"
  /\ boxes # <<>>
  /\ items # <<>>

\* C19: an item keeps its boxName in every step but an updateItem: an item
\* present before and after the step has the same boxName; addBox,
\* createNewBox, updateBoxStatus and selectBox leave the item collection as
\* it was; and the items a load sets are the records of the items table,
\* boxName included.
C19_BoxNameSnapshot ==
  [][/\ (last'.op # "updateItem")
          => \A i \in 1..Len(items), j \in 1..Len(items') :
               items[i].id = items'[j].id
                 => items'[j].boxName = items[i].boxName
     /\ (last'.op \in {"addBox", "createNewBox", "updateBoxStatus",
                       "selectBox"})
          => items' = items
     /\ (last'.op = "loadData" /\ last'.outcome = "resolved")
          => \A j \in 1..Len(items') : items'[j] \in store.items]_vars

\* an item added by addItem in the first session has come back from the
\* items table in the second with the name its box had then
C19_Witness ==
  /\ session = 2
  /\ last.op = "loadData"
  /\ last.outcome = "resolved"
  /\ \E i \in 1..Len(items), b \in 1..Len(boxes) :
       /\ items[i].id > 0
       /\ boxes[b].id = items[i].boxId
       /\ items[i].boxName = boxes[b].name
       /\ items[i].boxName # <<>>

\* C20, as claimed: when the last of the session's durable operations has
\* completed, all of them with success and in whatever order the database
\* completed them, the boxes table holds the records of the in-memory box
\* collection and the items table those of the in-memory item collection.
C20_OutOfOrderTolerated ==
  (Quiet /\ last.op = "completed" /\ last.outcome = "resolved")
    => (store.boxes = Range(boxes) /\ store.items = Range(items))

\* C21, as claimed: the step in which loadData sets the signals undoes no
\* mutation applied while the startup sequence ran: every box and every item
\* that was in memory before the step is in memory after it.
C21_StartupKeepsMutations ==
  [][(last'.op = "loadData" /\ last'.outcome = "resolved")
       => /\ Range(boxes) \subseteq Range(boxes')
          /\ Range(items) \subseteq Range(items')]_vars

BoxIds(bs) == {bs[i].id : i \in 1..Len(bs)}

Consistent(bs, is) == \A i \in 1..Len(is) : is[i].boxId \in BoxIds(bs)

\* no record of an earlier version: both blobs absent, no legacy record in
\* a table or in memory
NoLegacyData ==
  /\ BlobsAbsent(ls)
  /\ \A r \in store.boxes \cup store.items : r.id > 0
  /\ \A r \in Range(boxes) \cup Range(items) : r.id > 0

\* C22, as claimed: on an installation without legacy data, in every state
\* every item of the in-memory item collection has the boxId of a box of the
\* in-memory box collection.
C22_ReferentialConsistency == NoLegacyData => Consistent(boxes, items)

\* C22, amended: an item's boxId is the id of an in-memory box when addItem
\* creates it, and a step addBox, createNewBox, addItem, updateBoxStatus,
\* selectBox or deleteItem, or an updateItem whose updates carry no boxId,
\* taken where every item has the boxId of an in-memory box leaves it so;
\* an updateItem with a boxId in its updates sets that boxId unchecked.
C22_ConsistentAtCreation ==
  [][/\ (last'.op = "addItem" /\ last'.found)
          => Head(items').boxId \in BoxIds(boxes')
     /\ (/\ Consistent(boxes, items)
         /\ \/ last'.op \in {"addBox", "createNewBox", "addItem",
                              "updateBoxStatus", "selectBox", "deleteItem"}
            \/ last'.op = "updateItem" /\ "boxId" \notin DOMAIN last'.arg)
          => Consistent(boxes', items')
     /\ (last'.op = "updateItem" /\ last'.found
         /\ "boxId" \in DOMAIN last'.arg)
          => \E i \in 1..Len(items') :
               items'[i].id = last'.id /\ items'[i].boxId = last'.arg.boxId]_vars

\* on an installation without legacy data an item was added to a box and
\* then updated by an updateItem that names no boxId: every item still has
\* the boxId of an in-memory box
C22_Witness ==
  /\ NoLegacyData
  /\ last.op = "updateItem"
  /\ last.found
  /\ "boxId" \notin DOMAIN last.arg
  /\ items # <<>>
  /\ Consistent(boxes, items)

\* C24, as claimed: a migration put that succeeds never replaces a record
\* its table holds with different contents: the record it writes is either
\* new to the table or the one already there.
C24_MigrationNeverClobbers ==
  [][(last'.op = "migrated" /\ last'.outcome = "resolved")
       => \A r \in store[last'.arg.table] :
            r.id = last'.arg.value.id => r = last'.arg.value]_vars

\* C23: in the capture flow, whenever the handler resumed after the
\* classification adds an item, the item is in the box that was current when
\* the image was captured, and that box is unsealed at that moment: never a
\* different box, never a sealed one.
C23_ItemAddedToCapturedBox ==
  [][(last'.op = "analyzed" /\ last'.found)
       => /\ Head(items').boxId = last'.arg.captured
          /\ \A i \in 1..Len(boxes) :
               boxes[i].id = last'.arg.captured => ~boxes[i].isFull]_vars

\* the number of listening flags that are set
FlagsSet ==
  (IF isListeningForBox THEN 1 ELSE 0)
    + (IF isListeningForItem THEN 1 ELSE 0)
    + (IF isListeningForSearch THEN 1 ELSE 0)

\* at most one of the three listening flags is true
AtMostOneFlag == FlagsSet <= 1

\* after a voice result, a recognition error or a recognition end all three
\* flags are false
FlagsClearedAfter ==
  last.op \in {"handleVoiceResult", "speechError", "speechEnd"}
    => FlagsSet = 0

\* a transcript goes to the handler of the mode with which the recognizer
\* was started
DispatchedAsStarted ==
  last.op = "handleVoiceResult"
    => /\ last.arg.to \in ListeningModes
       /\ last.arg.to = last.arg.started

\* C25: in every reachable state at most one of isListeningForBox,
\* isListeningForItem, isListeningForSearch is true; after a voice result, a
\* recognition error or a recognition end all three are false; and a
\* transcript is dispatched to exactly one of create-box, append-description
\* and search, the one of the flag set when listening started.
C25_ListeningFlags ==
  AtMostOneFlag /\ FlagsClearedAfter /\ DispatchedAsStarted

====
